---------------------------- MODULE Spec2Model ----------------------------
(***************************************************************************)
(* Model of the Canvas of webgl-operate (src/source/canvas.ts): the        *)
(* binding life-cycle of a renderer (pipeline), the propagation of the     *)
(* canonical properties (frame size, clear color, frame precision) and the *)
(* controller gating around resize.                                        *)
(*                                                                         *)
(* Every canvas method is an operator from a world record (all fields of   *)
(* the canvas, its controller and the pipelines) to the world after the    *)
(* call, composed in the order of the statements of the method.  An action *)
(* applies one public operation to the current world and commits it.       *)
(*                                                                         *)
(* Controller, AbstractRenderer/Initializable, Resizable, Color, clamp2,   *)
(* parseVec2 and parseVec4 are code of the repository that is not under    *)
(* src/; they are modelled from the specification (sections 4.1, 4.2, 6    *)
(* and 7).                                                                 *)
(*                                                                         *)
(* Numbers: a size component is an integer; a scale component is an exact  *)
(* fraction <<n, d>> in lowest terms (the code holds it in a float).  A    *)
(* setter argument may also be an infinity, <<1, 0>> or <<-1, 0>>.         *)
(***************************************************************************)
EXTENDS Integers, Sequences, FiniteSets, TLC

VARIABLES
    size,                \* Canvas._size
    frameScale,          \* Canvas._frameScale
    frameSize,           \* Canvas._frameSize
    favorSizeOverScale,  \* Canvas._favorSizeOverScale
    clearColor,          \* Canvas._clearColor
    framePrecision,      \* Canvas._framePrecision
    renderer,            \* Canvas._renderer
    subjects,            \* last value of the four ReplaySubject(1)
    disposed,            \* Resizable: resize event handling removed
    controller,          \* Canvas._controller: blocked, controllable, requests
    pipeline,            \* the renderer objects the application owns
    capability,          \* best precision each pipeline supports
    lastOp,              \* the operation that produced this state
    log,                 \* controller/pipeline calls made by that operation
    requested,           \* the frame size last asked for, while only resizes follow
    label,               \* a Label: its fields and its change lookup
    texts                \* the Text objects labels may refer to

vars == <<size, frameScale, frameSize, favorSizeOverScale, clearColor,
          framePrecision, renderer, subjects, disposed, controller,
          pipeline, capability, lastOp, log, requested, label, texts>>

-----------------------------------------------------------------------------
(* Bounds and value sets *)

MaxWidth == 2
MaxHeight == 1

\* undefined
None == "none"

Pipelines == {"p", "q"}

\* surface sizes the host reports
Sizes == (1..MaxWidth) \X (1..MaxHeight)

\* arguments of the frameSize setter
SizeInputs ==
    {<<<<1, 1>>, <<1, 1>>>>, <<<<MaxWidth, 1>>, <<MaxHeight, 1>>>>,
     <<<<MaxWidth + 1, 1>>, <<MaxHeight + 1, 1>>>>,
     <<<<0, 1>>, <<0, 1>>>>, <<<<3, 2>>, <<1, 1>>>>}

\* arguments of the frameScale setter (fractions <<n, d>>)
ScaleComponents == {<<0, 1>>, <<1, 2>>, <<1, 1>>, <<3, 2>>}
ScaleInputs == {<<x, x>> : x \in ScaleComponents} \cup {<<<<1, 2>>, <<1, 1>>>>}

DEFAULT_CLEAR_COLOR == "default"
Colors == {DEFAULT_CLEAR_COLOR, "red"}

DEFAULT_FRAME_PRECISION == "auto"
FramePrecisionString == {"float", "half", "byte", "auto"}

\* what a pipeline may be able to accumulate in
Capabilities == {"float", "half", "byte"}

NoFault == "none"

-----------------------------------------------------------------------------
(* The world an operation runs in: the canvas fields, the controller, the  *)
(* pipelines, and what the running operation has called (log) or thrown    *)
(* (fault).                                                                *)

World ==
    [size |-> size, frameScale |-> frameScale, frameSize |-> frameSize,
     favorSizeOverScale |-> favorSizeOverScale, clearColor |-> clearColor,
     framePrecision |-> framePrecision, renderer |-> renderer,
     subjects |-> subjects, disposed |-> disposed, controller |-> controller,
     pipeline |-> pipeline, capability |-> capability,
     log |-> <<>>, fault |-> NoFault]

Emit(w, event) == [w EXCEPT !.log = Append(@, event)]

Throw(w, fault) == [w EXCEPT !.fault = fault]

-----------------------------------------------------------------------------
(* Fractions *)

RECURSIVE GCD(_, _)
GCD(a, b) == IF b = 0 THEN a ELSE GCD(b, a % b)

\* n / d in lowest terms, for n >= 0 and d > 0
Frac(n, d) == LET g == GCD(n, d) IN <<n \div g, d \div g>>

-----------------------------------------------------------------------------
(* Controller: a boolean gate; a request made while blocked is deferred to *)
(* the unblock, a request made while running schedules one render pass.    *)

update(w) ==
    IF w.controller.blocked
    THEN Emit([w EXCEPT !.controller.deferred = TRUE], <<"update", "deferred">>)
    ELSE Emit([w EXCEPT !.controller.scheduled = TRUE], <<"update", "scheduled">>)

block(w) == Emit([w EXCEPT !.controller.blocked = TRUE], <<"block">>)

unblock(w) ==
    IF ~w.controller.blocked
    THEN Emit(w, <<"unblock">>)
    ELSE LET w1 == Emit([w EXCEPT !.controller.blocked = FALSE], <<"unblock">>)
         IN  IF w1.controller.deferred
             THEN update([w1 EXCEPT !.controller.deferred = FALSE])
             ELSE w1

setControllable(w, controllable) ==
    IF w.controller.controllable = controllable
    THEN w
    ELSE update([w EXCEPT !.controller.controllable = controllable])

-----------------------------------------------------------------------------
(* Pipeline (AbstractRenderer): initialize/uninitialize and the setters    *)
(* the canvas forwards to.                                                 *)

\* the invalidation callback bind hands to initialize: controller.update()
invalidate(w, p) == IF w.pipeline[p].callback THEN update(w) ELSE w

\* initialize(context, callback) -> bool; re-initialization is a fault
initialize(w, p, ok) ==
    LET w1 == Emit(w, <<"initialize", p>>)
    IN  IF w1.pipeline[p].initialized
        THEN Throw(w1, "AlreadyInitialized")
        ELSE [w1 EXCEPT !.pipeline[p].initialized = ok,
                        !.pipeline[p].callback = TRUE]

uninitialize(w, p) ==
    Emit([w EXCEPT !.pipeline[p].initialized = FALSE], <<"uninitialize", p>>)

setRendererFrameSize(w, p, sz) ==
    invalidate(Emit([w EXCEPT !.pipeline[p].frameSize = sz], <<"frameSize", p>>), p)

setRendererClearColor(w, p, rgba) ==
    invalidate(Emit([w EXCEPT !.pipeline[p].clearColor = rgba], <<"clearColor", p>>), p)

Rank(precision) ==
    CASE precision = "byte" -> 0 [] precision = "half" -> 1 [] OTHER -> 2

\* capability negotiation: a precision above what the pipeline supports is
\* downgraded to what it supports
Negotiate(cap, precision) ==
    IF precision \in Capabilities /\ Rank(precision) > Rank(cap) THEN cap ELSE precision

setRendererFramePrecision(w, p, precision) ==
    invalidate(Emit([w EXCEPT !.pipeline[p].framePrecision =
                                  Negotiate(w.capability[p], precision)],
                    <<"framePrecision", p>>), p)

-----------------------------------------------------------------------------
(* Vector helpers of gl-matrix and gl-matrix-extensions on fractions       *)

\* an integer vector as a vector of fractions
AsFractions(v) == <<<<v[1], 1>>, <<v[2], 1>>>>

\* clamp of one component x = <<n, d>> to [lo, hi], lo and hi integers:
\* Math.max(lo, Math.min(hi, x)); the infinities <<1, 0>> and <<-1, 0>>
\* clamp to hi and to lo
Clamp(x, lo, hi) ==
    LET upper == IF x[1] > hi * x[2] THEN <<hi, 1>> ELSE x
    IN  IF upper[1] < lo * upper[2] THEN <<lo, 1>> ELSE upper

\* Math.round: the nearest integer, halves upwards
Round(x) == (2 * x[1] + x[2]) \div (2 * x[2])

\* mutant: the rounded product is not raised to one pixel
ScaledSize_Unfloored(extent, scale) == Round(<<extent * scale[1], scale[2]>>)

\* mutant: the product is truncated, not rounded
ScaledSize_Truncated(extent, scale) ==
    LET product == <<extent * scale[1], scale[2]>>
    IN  IF product[1] < product[2] THEN 1 ELSE product[1] \div product[2]

\* one component of vec2.mul, vec2.max with 1, vec2.round
ScaledSize(extent, scale) ==
    LET product == <<extent * scale[1], scale[2]>>
    IN  Round(IF product[1] < product[2] THEN <<1, 1>> ELSE product)

-----------------------------------------------------------------------------
(* Canvas: subjects *)

framePrecisionNext(w) == [w EXCEPT !.subjects.framePrecision = w.framePrecision]
sizeNext(w) == [w EXCEPT !.subjects.size = w.size]
frameScaleNext(w) == [w EXCEPT !.subjects.frameScale = w.frameScale]
frameSizeNext(w) == [w EXCEPT !.subjects.frameSize = w.frameSize]

\* the tail of both resolution setters: forward the frame size to the renderer
ForwardFrameSize(w) ==
    IF w.renderer # None
    THEN setRendererFrameSize(w, w.renderer, w.frameSize)
    ELSE w

\* mutant: the scale is derived with the axes of the surface exchanged
setFrameScale_Transposed(w, scaleArg) ==
    LET scale == <<Clamp(scaleArg[1], 0, 1), Clamp(scaleArg[2], 0, 1)>>
        sz    == <<ScaledSize(w.size[1], scale[1]), ScaledSize(w.size[2], scale[2])>>
        w1    == [w EXCEPT !.frameScale = <<Frac(sz[1], w.size[2]), Frac(sz[2], w.size[1])>>,
                           !.frameSize = sz,
                           !.favorSizeOverScale = FALSE]
    IN  ForwardFrameSize(frameSizeNext(frameScaleNext(w1)))

(* Canvas: set frameScale *)
setFrameScale(w, scaleArg) ==
    LET scale == <<Clamp(scaleArg[1], 0, 1), Clamp(scaleArg[2], 0, 1)>>
        sz    == <<ScaledSize(w.size[1], scale[1]), ScaledSize(w.size[2], scale[2])>>
        w1    == [w EXCEPT !.frameScale = <<Frac(sz[1], w.size[1]), Frac(sz[2], w.size[2])>>,
                           !.frameSize = sz,
                           !.favorSizeOverScale = FALSE]
    IN  ForwardFrameSize(frameSizeNext(frameScaleNext(w1)))

\* mutant: the size given is clamped to one pixel beyond the surface
setFrameSize_Beyond(w, sizeArg) ==
    LET sz == <<Round(Clamp(sizeArg[1], 1, w.size[1] + 1)),
                Round(Clamp(sizeArg[2], 1, w.size[2] + 1))>>
        w1 == [w EXCEPT !.frameScale = <<Frac(sz[1], w.size[1]), Frac(sz[2], w.size[2])>>,
                        !.frameSize = sz,
                        !.favorSizeOverScale = (sz # w.size)]
    IN  ForwardFrameSize(frameSizeNext(frameScaleNext(w1)))

\* mutant: the mode is size-authoritative whatever the resulting size
setFrameSize_Sticky(w, sizeArg) ==
    LET sz == <<Round(Clamp(sizeArg[1], 1, w.size[1])),
                Round(Clamp(sizeArg[2], 1, w.size[2]))>>
        w1 == [w EXCEPT !.frameScale = <<Frac(sz[1], w.size[1]), Frac(sz[2], w.size[2])>>,
                        !.frameSize = sz,
                        !.favorSizeOverScale = TRUE]
    IN  ForwardFrameSize(frameSizeNext(frameScaleNext(w1)))

(* Canvas: set frameSize *)
setFrameSize(w, sizeArg) ==
    LET sz == <<Round(Clamp(sizeArg[1], 1, w.size[1])),
                Round(Clamp(sizeArg[2], 1, w.size[2]))>>
        w1 == [w EXCEPT !.frameScale = <<Frac(sz[1], w.size[1]), Frac(sz[2], w.size[2])>>,
                        !.frameSize = sz,
                        !.favorSizeOverScale = (sz # w.size)]
    IN  ForwardFrameSize(frameSizeNext(frameScaleNext(w1)))

(* Canvas.retrieveSize: the element size is what the host reports *)
retrieveSize(w, elementSize) == sizeNext([w EXCEPT !.size = elementSize])

\* mutant: resize does not block the controller
ResizeBlock_Skipped(w) == w

\* the controller is blocked around the recomputation when a renderer is bound
ResizeBlock(w) == IF w.renderer # None THEN block(w) ELSE w

\* mutant: a resize unblocks the controller whether a renderer is bound or not
ResizeUnblock_Always(w) == unblock(w)

\* the controller is unblocked again when a renderer is bound
ResizeUnblock(w) == IF w.renderer # None THEN unblock(w) ELSE w

\* mutant: a resize re-applies the previous scale whatever the mode
onResize_Rescaling(w, elementSize) ==
    LET w1 == ResizeBlock(retrieveSize(w, elementSize))
    IN  ResizeUnblock(setFrameScale(w1, w1.frameScale))

\* mutant: a resize re-applies the previous frame size whatever the mode
onResize_KeepingSize(w, elementSize) ==
    LET w1 == ResizeBlock(retrieveSize(w, elementSize))
    IN  ResizeUnblock(setFrameSize(w1, AsFractions(w1.frameSize)))

\* mutant: the dispatch on the mode is inverted
Reconfigure_Swapped(w, elementSize, previous) ==
    LET w1 == ResizeBlock(retrieveSize(w, elementSize))
        w2 == IF w1.favorSizeOverScale
              THEN setFrameScale(w1, w1.frameScale)
              ELSE setFrameSize(w1, previous)
    IN  ResizeUnblock(w2)

(* Canvas.onResize, where previous is the value of _frameSize *)
Reconfigure(w, elementSize, previous) ==
    LET w1 == ResizeBlock(retrieveSize(w, elementSize))
        w2 == IF w1.favorSizeOverScale
              THEN setFrameSize(w1, previous)
              ELSE setFrameScale(w1, w1.frameScale)
    IN  ResizeUnblock(w2)

(* Canvas.onResize after construction: _frameSize is what a setter stored *)
onResize(w, elementSize) == Reconfigure(w, elementSize, AsFractions(w.frameSize))

-----------------------------------------------------------------------------
(* Canvas: bind, unbind, dispose *)

\* mutant: bind never takes the early return
AlreadyBound_Never(w, r) == FALSE

\* bind returns at once when the renderer given is the one bound
AlreadyBound(w, r) == w.renderer = r

\* mutant: unbind uninitializes the renderer it detaches
unbind_Uninitializing(w) ==
    IF w.renderer = None
    THEN w
    ELSE LET w1 == setControllable(block(uninitialize(w, w.renderer)), None)
         IN  [w1 EXCEPT !.renderer = None]

\* mutant: unbind detaches without blocking the controller
unbind_Unblocked(w) ==
    IF w.renderer = None
    THEN w
    ELSE [setControllable(w, None) EXCEPT !.renderer = None]

(* Canvas.unbind *)
unbind(w) ==
    IF w.renderer = None
    THEN w
    ELSE LET w1 == setControllable(block(w), None)
         IN  [w1 EXCEPT !.renderer = None]

\* the canonical precision after bind has pushed it to the renderer
BoundPrecision(w) == w.framePrecision

\* bind pushes frame size, clear color and frame precision into the renderer
PushProperties(w) ==
    LET r  == w.renderer
        w1 == setRendererFrameSize(w, r, w.frameSize)
        w2 == setRendererClearColor(w1, r, w1.clearColor)
        w3 == setRendererFramePrecision(w2, r, w2.framePrecision)
    IN  [w3 EXCEPT !.framePrecision = BoundPrecision(w3)]

\* mutant: bind pushes the properties but leaves the controller as it is
AfterInitialize_Detached(w, ok) == PushProperties(w)

\* what bind does once initialize has returned, whatever it returned
AfterInitialize(w, ok) ==
    LET w1 == PushProperties(w)
    IN  unblock(setControllable(w1, w1.renderer))

(* Canvas.bind; ok is what the renderer's initialize returns *)
bind(w, r, ok) ==
    IF AlreadyBound(w, r)
    THEN w
    ELSE LET w1 == unbind(w)
         IN  IF r = None
             THEN w1
             ELSE IF ~w1.controller.blocked
             THEN Throw(w1, "AssertionFailed")
             ELSE LET w2 == initialize([w1 EXCEPT !.renderer = r], r, ok)
                  IN  IF w2.fault # NoFault THEN w2 ELSE AfterInitialize(w2, ok)

\* Resizable.dispose: the canvas no longer receives the host's resize events
resizableDispose(w) == [w EXCEPT !.disposed = TRUE]

\* mutant: dispose unbinds without uninitializing
dispose_Unbinding(w) == unbind(resizableDispose(w))

(* Canvas.dispose *)
dispose(w) ==
    LET w1 == resizableDispose(w)
    IN  IF w1.renderer # None
        THEN unbind(uninitialize(w1, w1.renderer))
        ELSE w1

\* mutant: the clear color is stored but not forwarded
setClearColor_Kept(w, color) == [w EXCEPT !.clearColor = color]

(* Canvas: set clearColor *)
setClearColor(w, color) ==
    LET w1 == [w EXCEPT !.clearColor = color]
    IN  IF w1.renderer # None
        THEN setRendererClearColor(w1, w1.renderer, w1.clearColor)
        ELSE w1

\* mutant: the canvas keeps the precision it asked for
AcceptedPrecision_Asked(w) == w.framePrecision

\* the precision the canvas keeps after forwarding it to the bound renderer
AcceptedPrecision(w) == w.pipeline[w.renderer].framePrecision

\* mutant: the precision is published before the renderer has answered
setFramePrecision_PublishedFirst(w, precision) ==
    LET w1 == framePrecisionNext([w EXCEPT !.framePrecision = precision])
    IN  IF w1.renderer # None
        THEN LET w3 == setRendererFramePrecision(w1, w1.renderer, w1.framePrecision)
             IN  [w3 EXCEPT !.framePrecision = AcceptedPrecision(w3)]
        ELSE w1

(* Canvas: set framePrecision *)
setFramePrecision(w, precision) ==
    LET w1 == [w EXCEPT !.framePrecision = precision]
        w2 == IF w1.renderer # None
              THEN LET w3 == setRendererFramePrecision(w1, w1.renderer, w1.framePrecision)
                   IN  [w3 EXCEPT !.framePrecision = AcceptedPrecision(w3)]
              ELSE w1
    IN  framePrecisionNext(w2)

-----------------------------------------------------------------------------
(* Construction *)

\* the fields before the constructor body runs
Fresh(caps) ==
    [size |-> <<1, 1>>, frameScale |-> <<<<1, 1>>, <<1, 1>>>>, frameSize |-> <<1, 1>>,
     favorSizeOverScale |-> FALSE, clearColor |-> DEFAULT_CLEAR_COLOR,
     framePrecision |-> DEFAULT_FRAME_PRECISION, renderer |-> None,
     subjects |-> [size |-> <<>>, frameScale |-> <<>>, frameSize |-> <<>>,
                   framePrecision |-> None],
     disposed |-> FALSE,
     controller |-> [blocked |-> FALSE, controllable |-> None,
                     deferred |-> FALSE, scheduled |-> FALSE,
                     multiFrameNumber |-> 0, debugFrameNumber |-> 0],
     pipeline |-> [p \in Pipelines |->
                     [initialized |-> FALSE, callback |-> FALSE, frameSize |-> <<0, 0>>,
                      clearColor |-> None, framePrecision |-> None]],
     capability |-> caps,
     log |-> <<>>, fault |-> NoFault]

\* the data attributes of the canvas element.  A number attribute is the
\* sequence of its characters; a vector attribute is the sequence of its
\* comma-separated fields, each the number it reads as or NaN; <<>> is an
\* attribute that is absent or empty, None an absent string attribute.
NaN == <<0, 0>>
Undefined == <<>>

EmptyDataset ==
    [multiFrameNumber |-> <<>>, debugFrameNumber |-> <<>>, clearColor |-> <<>>,
     frameScale |-> <<>>, frameSize |-> <<>>, accumulationFormat |-> None]

DigitChars == <<"0", "1", "2", "3", "4", "5", "6", "7", "8", "9">>
IsDigit(c) == \E d \in 1..10 : DigitChars[d] = c
DigitValue(c) == (CHOOSE d \in 1..10 : DigitChars[d] = c) - 1

RECURSIVE SkipSpaces(_, _)
SkipSpaces(chars, i) ==
    IF i <= Len(chars) /\ chars[i] = " " THEN SkipSpaces(chars, i + 1) ELSE i

RECURSIVE ReadDigits(_, _, _)
ReadDigits(chars, i, value) ==
    IF i <= Len(chars) /\ IsDigit(chars[i])
    THEN ReadDigits(chars, i + 1, 10 * value + DigitValue(chars[i]))
    ELSE [next |-> i, value |-> value]

\* parseInt(text, 10): leading blanks, an optional sign, then the longest
\* run of digits; NaN when there is no digit
parseInt(chars) ==
    LET start  == SkipSpaces(chars, 1)
        signed == start <= Len(chars) /\ chars[start] \in {"-", "+"}
        first  == IF signed THEN start + 1 ELSE start
        read   == ReadDigits(chars, first, 0)
    IN  IF read.next = first THEN [nan |-> TRUE, value |-> 0]
        ELSE [nan |-> FALSE,
              value |-> IF signed /\ chars[start] = "-" THEN 0 - read.value
                        ELSE read.value]

\* parseVec2, parseVec4: the vector when the text has exactly that many
\* fields and every field is a number, undefined otherwise
parseVec(fields, n) ==
    IF Len(fields) = n /\ \A i \in 1..Len(fields) : fields[i] # NaN
    THEN fields ELSE Undefined
parseVec2(fields) == parseVec(fields, 2)
parseVec4(fields) == parseVec(fields, 4)

\* new Color(rgba)
RedComponents == <<<<1, 1>>, <<0, 1>>, <<0, 1>>, <<1, 1>>>>
Color(rgba) == IF rgba = RedComponents THEN "red" ELSE "rgba"

DEFAULT_MULTI_FRAME_NUMBER == 0

\* Controller.multiFrameNumber, Controller.debugFrameNumber (setters)
setMultiFrameNumber(w, n) == [w EXCEPT !.controller.multiFrameNumber = n]
setDebugFrameNumber(w, n) == [w EXCEPT !.controller.debugFrameNumber = n]

(* Canvas.configureController *)
configureController(w, dataset) ==
    LET mfNum == parseInt(dataset.multiFrameNumber)
        dfNum == parseInt(dataset.debugFrameNumber)
        w1    == setMultiFrameNumber(block(w), IF ~mfNum.nan THEN mfNum.value
                                               ELSE DEFAULT_MULTI_FRAME_NUMBER)
    IN  setDebugFrameNumber(w1, IF ~dfNum.nan THEN dfNum.value ELSE 0)

\* mutant: the frame-scale attribute decides the mode
FavorSize_ScaleFirst(dataFrameScale, dataFrameSize) ==
    dataFrameScale = Undefined /\ dataFrameSize # Undefined

\* _favorSizeOverScale as configured: whether data-frame-size was parsed
FavorSize(dataFrameScale, dataFrameSize) == dataFrameSize # Undefined

(* Canvas.configureSizeAndScale; the configured _frameSize is handed to    *)
(* onResize as it was parsed                                               *)
configureSizeAndScale(w, dataset, elementSize) ==
    LET dataFrameScale == IF dataset.frameScale # <<>>
                          THEN parseVec2(dataset.frameScale) ELSE Undefined
        dataFrameSize  == IF dataset.frameSize # <<>>
                          THEN parseVec2(dataset.frameSize) ELSE Undefined
        w1 == [w EXCEPT !.frameScale = IF dataFrameScale # Undefined THEN dataFrameScale
                                       ELSE <<<<1, 1>>, <<1, 1>>>>,
                        !.favorSizeOverScale = FavorSize(dataFrameScale, dataFrameSize),
                        !.frameSize = w.size]
    IN  Reconfigure(w1, elementSize, IF dataFrameSize # Undefined THEN dataFrameSize
                                     ELSE AsFractions(w.size))

(* Canvas.constructor *)
construct(dataset, caps, elementSize) ==
    LET w1 == configureSizeAndScale(configureController(Fresh(caps), dataset),
                                    dataset, elementSize)
        dataClearColor == IF dataset.clearColor # <<>>
                          THEN parseVec4(dataset.clearColor) ELSE Undefined
        dataFramePrecision == dataset.accumulationFormat
        w2 == [w1 EXCEPT !.clearColor = IF dataClearColor # Undefined
                                        THEN Color(dataClearColor)
                                        ELSE DEFAULT_CLEAR_COLOR,
                         !.framePrecision = IF dataFramePrecision \notin {None, ""}
                                            THEN dataFramePrecision
                                            ELSE DEFAULT_FRAME_PRECISION]
    IN  framePrecisionNext(w2)

-----------------------------------------------------------------------------
(* Label (src/source/label.ts) and what it refers to: Text objects, font   *)
(* faces, Color objects and its ChangeLookup.                              *)

MaxColorCopies == 2

\* Text objects, as distinct from plain strings
TextObjects == {"text1"}
Strings == {"a"}

FontFaces == {"face1", "face2"}

\* Color objects: several objects may hold the same components
ColorObjects == {[id |-> i, rgba |-> v] : i \in 1..MaxColorCopies, v \in {"red", "blue"}}

\* a color field that was never assigned
NoColor == [id |-> 0, rgba |-> "undefined"]

\* Color.equals: equality of the components, not of the objects
equals(a, b) == a.rgba = b.rgba

Categories == {"any", "color", "resources", "text", "typesetting", "transformation"}

\* ChangeLookup.alter, ChangeLookup.reset
alter(l, category) == [l EXCEPT !.altered[category] = TRUE, !.altered["any"] = TRUE]
resetLookup(l) == [l EXCEPT !.altered = [c \in Categories |-> FALSE]]

\* the fields of new Label(): those without an initializer are undefined
NewLabel ==
    [text |-> None, wordWrap |-> FALSE, alignment |-> "left", lineAnchor |-> "baseline",
     fontFace |-> None, color |-> NoColor, backgroundColor |-> NoColor,
     altered |-> [c \in Categories |-> FALSE]]

(* Label: set text *)
setText(l, text) == [alter(l, "text") EXCEPT !.text = text]

(* Label: set wordWrap, alignment, lineAnchor, fontFace *)
setWordWrap(l, wrap) ==
    IF l.wordWrap = wrap THEN l ELSE [alter(l, "typesetting") EXCEPT !.wordWrap = wrap]

setAlignment(l, alignment) ==
    IF l.alignment = alignment THEN l
    ELSE [alter(l, "typesetting") EXCEPT !.alignment = alignment]

setLineAnchor(l, anchor) ==
    IF l.lineAnchor = anchor THEN l
    ELSE [alter(l, "typesetting") EXCEPT !.lineAnchor = anchor]

setFontFace(l, fontFace) ==
    IF l.fontFace = fontFace THEN l
    ELSE [alter(alter(l, "typesetting"), "resources") EXCEPT !.fontFace = fontFace]

\* mutant: the colors are compared as objects
SameColor_Identical(current, color) == current = color

\* the guard of both color setters
SameColor(current, color) == equals(current, color)

(* Label: set color, set backgroundColor; calling equals on a field that   *)
(* was never assigned throws a TypeError before anything is changed        *)
setColor(l, color) ==
    IF l.color = NoColor THEN l
    ELSE IF SameColor(l.color, color) THEN l
    ELSE [alter(l, "color") EXCEPT !.color = color]

setBackgroundColor(l, color) ==
    IF l.backgroundColor = NoColor THEN l
    ELSE IF SameColor(l.backgroundColor, color) THEN l
    ELSE [alter(l, "color") EXCEPT !.backgroundColor = color]

\* mutant: the label reports its own changes only
altered_Own(l, ts) == l.altered["any"]

(* Label: get altered *)
altered(l, ts) ==
    l.altered["any"] \/ (IF l.text \in TextObjects THEN ts[l.text].altered ELSE FALSE)

(* Label.reset *)
reset(l) == resetLookup(l)

-----------------------------------------------------------------------------
(* The state machine *)

\* no frame size asked for, or a scale set since
NoRequest == [kind |-> "none", size |-> <<0, 0>>, met |-> FALSE]

\* what becomes of the request when operation op leaves the world w: a
\* frameSize call that stored its argument unadjusted is a request for the
\* full surface or for a smaller frame; a resize keeps a request for a smaller
\* frame while the surface holds it, noting when the surface has equalled it;
\* a frameScale call ends the request
Track(w, op) ==
    CASE op.op = "frameSize" ->
            IF op.arg # AsFractions(w.frameSize) THEN NoRequest
            ELSE [kind |-> IF w.frameSize = w.size THEN "full" ELSE "smaller",
                  size |-> w.frameSize, met |-> FALSE]
      [] op.op \in {"resize", "hostResize"} ->
            IF requested.kind # "smaller" THEN requested
            ELSE IF w.size[1] < requested.size[1] \/ w.size[2] < requested.size[2]
            THEN NoRequest
            ELSE [requested EXCEPT !.met = @ \/ w.size = requested.size]
      [] op.op \in {"frameScale", "frameScaleReadBack"} -> NoRequest
      [] OTHER -> requested

Commit(w, op) ==
    /\ size' = w.size
    /\ frameScale' = w.frameScale
    /\ frameSize' = w.frameSize
    /\ favorSizeOverScale' = w.favorSizeOverScale
    /\ clearColor' = w.clearColor
    /\ framePrecision' = w.framePrecision
    /\ renderer' = w.renderer
    /\ subjects' = w.subjects
    /\ disposed' = w.disposed
    /\ controller' = w.controller
    /\ pipeline' = w.pipeline
    /\ capability' = w.capability
    /\ log' = w.log
    /\ lastOp' = op
    /\ requested' = Track(w, op)
    /\ UNCHANGED <<label, texts>>

Op(name, arg, result) == [op |-> name, arg |-> arg, result |-> result]

\* a canvas as its constructor leaves it, and a label l
StartWith(dataset, caps, elementSize, l) ==
    LET w == construct(dataset, caps, elementSize)
    IN  /\ size = w.size
        /\ frameScale = w.frameScale
        /\ frameSize = w.frameSize
        /\ favorSizeOverScale = w.favorSizeOverScale
        /\ clearColor = w.clearColor
        /\ framePrecision = w.framePrecision
        /\ renderer = w.renderer
        /\ subjects = w.subjects
        /\ disposed = w.disposed
        /\ controller = w.controller
        /\ pipeline = w.pipeline
        /\ capability = w.capability
        /\ log = w.log
        /\ lastOp = Op("constructor", dataset, "ok")
        /\ requested = NoRequest
        /\ label = l
        /\ texts = [t \in TextObjects |-> [altered |-> FALSE]]

Start(dataset, caps, elementSize) == StartWith(dataset, caps, elementSize, NewLabel)

\* how a call of bind(r) ended
BindResult(w, r, ok, after) ==
    IF AlreadyBound(w, r) THEN "noop"
    ELSE IF after.fault # NoFault THEN after.fault
    ELSE IF r = None THEN "unbound"
    ELSE IF ok THEN "ok" ELSE "initializeFailed"

\* canvas.renderer = r
Bind(r, ok) ==
    LET after == bind(World, r, ok)
    IN  Commit(after, Op("bind", r, BindResult(World, r, ok, after)))

\* how a call of dispose() ended
DisposeResult ==
    IF renderer # None THEN "ok" ELSE IF disposed THEN "again" ELSE "noop"

Dispose ==
    Commit(dispose(World), Op("dispose", None, DisposeResult))

\* canvas.resize()
Resize(elementSize) ==
    Commit(onResize(World, elementSize), Op("resize", None, "ok"))

\* the host's resize event, delivered by Resizable
HostResize(elementSize) ==
    /\ ~disposed
    /\ Commit(onResize(World, elementSize), Op("hostResize", None, "ok"))

SetFrameScale(scaleArg) ==
    Commit(setFrameScale(World, scaleArg), Op("frameScale", scaleArg, "ok"))

\* canvas.frameScale = canvas.frameScale: the scale read back is set again
ReadBackFrameScale ==
    Commit(setFrameScale(World, frameScale), Op("frameScaleReadBack", frameScale, "ok"))

SetFrameSize(sizeArg) ==
    Commit(setFrameSize(World, sizeArg), Op("frameSize", sizeArg, "ok"))

SetClearColor(color) ==
    Commit(setClearColor(World, color), Op("clearColor", None, "ok"))

SetFramePrecision(precision) ==
    Commit(setFramePrecision(World, precision), Op("framePrecision", precision, "ok"))

\* a pipeline calls the invalidation callback it was initialized with
Invalidate(p) ==
    /\ pipeline[p].callback
    /\ Commit(update(World), Op("invalidate", p, "ok"))

\* the controller runs the render pass it scheduled
Frame ==
    /\ controller.scheduled
    /\ ~controller.blocked
    /\ controller.controllable # None
    /\ Commit([World EXCEPT !.controller.scheduled = FALSE],
              Op("frame", controller.controllable, "ok"))

\* the owner of a pipeline that is not bound uninitializes it
Uninitialize(p) ==
    /\ renderer # p
    /\ pipeline[p].initialized
    /\ Commit(uninitialize(World, p), Op("uninitialize", p, "ok"))

(* The life-cycle of two pipelines on one canvas: binding, replacing,      *)
(* unbinding and disposing, with surface resizes, invalidations and frames *)
(* between.  Scale, clear color and precision keep their defaults here.    *)

Init ==
    \E elementSize \in Sizes : Start(EmptyDataset, [p \in Pipelines |-> "float"], elementSize)

Next ==
    \/ \E r \in Pipelines \cup {None}, ok \in BOOLEAN : Bind(r, ok)
    \/ Dispose
    \/ \E elementSize \in Sizes : Resize(elementSize)
    \/ \E elementSize \in Sizes : HostResize(elementSize)
    \/ \E p \in Pipelines : Invalidate(p)
    \/ Frame
    \/ \E p \in Pipelines : Uninitialize(p)

Spec == Init /\ [][Next]_vars

(* Resolution and clear color of the canvas and one pipeline: the setters, *)
(* bind, unbind, dispose and resize.                                       *)

ThePipeline == CHOOSE p \in Pipelines : TRUE

NextProperties ==
    \/ \E r \in {ThePipeline, None}, ok \in BOOLEAN : Bind(r, ok)
    \/ Dispose
    \/ \E elementSize \in Sizes : Resize(elementSize)
    \/ \E elementSize \in Sizes : HostResize(elementSize)
    \/ \E scaleArg \in ScaleInputs : SetFrameScale(scaleArg)
    \/ \E sizeArg \in SizeInputs : SetFrameSize(sizeArg)
    \/ \E color \in Colors : SetClearColor(color)
    \/ Invalidate(ThePipeline)
    \/ Frame
    \/ Uninitialize(ThePipeline)

SpecProperties == Init /\ [][NextProperties]_vars

(* Frame precision of the canvas and one pipeline of any capability.       *)

InitPrecision ==
    \E cap \in Capabilities, elementSize \in Sizes :
        Start(EmptyDataset, [p \in Pipelines |-> cap], elementSize)

NextPrecision ==
    \/ \E r \in {ThePipeline, None}, ok \in BOOLEAN : Bind(r, ok)
    \/ Dispose
    \/ \E precision \in FramePrecisionString : SetFramePrecision(precision)
    \/ Invalidate(ThePipeline)
    \/ Frame
    \/ Uninitialize(ThePipeline)

SpecPrecision == InitPrecision /\ [][NextPrecision]_vars

-----------------------------------------------------------------------------
(* Reading the log of the operation that produced a state *)

Calls(event) == Cardinality({i \in 1..Len(log) : log[i] = event})

\* the position of the first such call, 0 when there is none
First(event) ==
    IF Calls(event) = 0 THEN 0
    ELSE CHOOSE i \in 1..Len(log) :
            /\ log[i] = event
            /\ \A j \in 1..(i - 1) : log[j] # event

\* a pipeline is attached when both the canvas and the controller hold it
Attached == renderer # None /\ controller.controllable = renderer

CanvasFields ==
    <<size, frameScale, frameSize, favorSizeOverScale, clearColor,
      framePrecision, renderer, subjects>>

-----------------------------------------------------------------------------
(* Claims *)

\* C1: bind(p) while p is the bound pipeline is a no-op: the call invokes
\* nothing (no initialize), and leaves the controller (blocked state and
\* controllable), the pipelines and the canvas fields as they were.
C1_BindIdempotent ==
    [][\A p \in Pipelines :
          (lastOp'.op = "bind" /\ lastOp'.arg = p /\ renderer = p) =>
              /\ log' = <<>>
              /\ lastOp'.result = "noop"
              /\ UNCHANGED <<controller, pipeline, CanvasFields>>]_vars

\* C1 witness: p was bound by a completed bind (one initialize) and bind(p)
\* was called again.
C1_Witness ==
    /\ lastOp = Op("bind", "p", "noop")
    /\ Attached /\ renderer = "p"
    /\ pipeline["p"].initialized
    /\ ~controller.blocked

\* C2: when bind(p) completes (initialize returned, p was not initialized),
\* p is the renderer of the canvas and the controllable of the controller,
\* initialize was called exactly once and left a callback, and the
\* controller is unblocked.
C2_BindActivates ==
    (lastOp.op = "bind" /\ lastOp.result \in {"ok", "initializeFailed"}) =>
        /\ renderer = lastOp.arg
        /\ controller.controllable = lastOp.arg
        /\ \A p \in Pipelines : Calls(<<"initialize", p>>) = (IF p = lastOp.arg THEN 1 ELSE 0)
        /\ pipeline[lastOp.arg].callback
        /\ ~controller.blocked

\* C2 witness: q was bound in place of another pipeline, which bind unbound.
C2_Witness ==
    /\ lastOp = Op("bind", "q", "ok")
    /\ First(<<"block">>) = 1
    /\ renderer = "q" /\ controller.controllable = "q"
    /\ pipeline["p"].initialized

\* C3: while a pipeline is attached by a completed bind, its frame size and
\* its clear color are those of the canvas, whatever setters and resizes
\* ran before or after the bind.
C3_PropertiesForwarded ==
    Attached =>
        /\ pipeline[renderer].frameSize = frameSize
        /\ pipeline[renderer].clearColor = clearColor

\* C3 witness: a bind has just pushed a clear color and a frame size that
\* are not the defaults into the pipeline.
C3_Witness ==
    /\ lastOp.op = "bind" /\ lastOp.result = "ok"
    /\ Attached
    /\ clearColor # DEFAULT_CLEAR_COLOR
    /\ frameSize # size
    /\ pipeline[renderer].clearColor = clearColor
    /\ pipeline[renderer].frameSize = frameSize

\* C4 (as claimed): after a completed bind the canonical frame precision of
\* the canvas equals the precision the pipeline reports.
C4_PrecisionReadBackOnBind ==
    (lastOp.op = "bind" /\ lastOp.result = "ok") =>
        framePrecision = pipeline[renderer].framePrecision

\* C5: writing precision v forwards v to the bound pipeline, adopts what the
\* pipeline reports and emits that value; with no pipeline bound the
\* canonical and the emitted value are v.
C5_PrecisionNegotiatedOnWrite ==
    lastOp.op = "framePrecision" =>
        /\ subjects.framePrecision = framePrecision
        /\ IF renderer # None
           THEN /\ pipeline[renderer].framePrecision =
                       Negotiate(capability[renderer], lastOp.arg)
                /\ framePrecision = pipeline[renderer].framePrecision
           ELSE framePrecision = lastOp.arg

\* C5 witness: 'float' was written, the pipeline accepted 'byte', and
\* 'byte' is canonical and emitted.
C5_Witness ==
    /\ lastOp = Op("framePrecision", "float", "ok")
    /\ renderer # None
    /\ pipeline[renderer].framePrecision = "byte"
    /\ framePrecision = "byte"
    /\ subjects.framePrecision = "byte"

C7_Dispose ==
    [][(lastOp'.op = "dispose") =>
          IF renderer # None
          THEN /\ \A i \in 1..Len(log') :
                     (log'[i][1] = "uninitialize") <=> (i = 1)
               /\ log'[1] = <<"uninitialize", renderer>>
               /\ ~pipeline'[renderer].initialized
               /\ renderer' = None
               /\ controller'.controllable = None
               /\ controller'.blocked
          ELSE /\ \A i \in 1..Len(log') : log'[i][1] # "uninitialize"
               /\ renderer' = None
               /\ controller'.blocked = controller.blocked
               /\ pipeline' = pipeline]_vars

\* C7 witness: dispose() was called again on a disposed canvas, after a
\* pipeline had been initialized and uninitialized.
C7_Witness ==
    /\ lastOp = Op("dispose", None, "again")
    /\ disposed
    /\ renderer = None /\ controller.blocked
    /\ \E p \in Pipelines : pipeline[p].callback /\ ~pipeline[p].initialized

\* C8 (as claimed): a bind whose initialize returned false leaves the
\* controller blocked and the pipeline not attached to the controller.
C8_FailedBindStaysBlocked ==
    (lastOp.op = "bind" /\ lastOp.result = "initializeFailed") =>
        /\ controller.blocked
        /\ controller.controllable # lastOp.arg

C10_ResizeBlocked ==
    /\ (lastOp.op \in {"resize", "hostResize"} /\ renderer # None) =>
          LET forwarded == First(<<"frameSize", renderer>>)
              unblocked == First(<<"unblock">>)
          IN  /\ log[1] = <<"block">>
              /\ Calls(<<"block">>) = 1 /\ Calls(<<"unblock">>) = 1
              /\ 1 < forwarded /\ forwarded < unblocked
              /\ \A i \in 1..unblocked : log[i] # <<"update", "scheduled">>
              /\ ~controller.blocked
    /\ (lastOp.op = "frame") => ~controller.blocked

\* C10 witness: during a host resize the pipeline asked for an update, which
\* was deferred and scheduled only by the unblock.
C10_Witness ==
    /\ lastOp.op = "hostResize"
    /\ Attached
    /\ First(<<"update", "deferred">>) > 1
    /\ First(<<"update", "deferred">>) < First(<<"unblock">>)
    /\ log[Len(log)] = <<"update", "scheduled">>
    /\ frameSize # size

-----------------------------------------------------------------------------
(* Resolution policy *)

\* whether the controller is blocked just before the i-th call of a log,
\* given whether it was blocked when the operation began
BlockedBefore(blocked, calls, i) ==
    LET gates == {j \in 1..(i - 1) : calls[j][1] \in {"block", "unblock"}}
    IN  IF gates = {} THEN blocked
        ELSE calls[CHOOSE j \in gates : \A k \in gates : k <= j][1] = "block"

\* C11 (as claimed): whatever the operation, a pipeline's frame size is
\* written only while the controller is blocked.
C11_FrameSizeWrittenWhileBlocked ==
    [][\A i \in 1..Len(log') :
          log'[i][1] = "frameSize" =>
              BlockedBefore(controller.blocked, log', i)]_vars

\* surfaces and setter arguments of the resolution specification: scales
\* below 0 and above 1, sizes below 1 and above the surface, halves, and
\* the infinities <<1, 0>> and <<-1, 0>>
ResolutionSizes == (1..(MaxWidth + 1)) \X (1..(MaxHeight + 1))

ScaleArguments ==
    LET components == {<<-1, 2>>, <<0, 1>>, <<1, 3>>, <<1, 2>>, <<1, 1>>, <<3, 2>>,
                       <<1, 0>>, <<-1, 0>>}
    IN  components \X components

SizeComponents(extent) ==
    {<<n, 1>> : n \in (-1)..(extent + 2)} \cup {<<2 * n + 1, 2>> : n \in 0..extent}
        \cup {<<1, 0>>, <<-1, 0>>}

SizeArguments == SizeComponents(MaxWidth + 1) \X SizeComponents(MaxHeight + 1)

(* The resolution of a canvas no pipeline is bound to: the two setters and *)
(* surface resizes, over larger surfaces and with the arguments recorded.  *)

InitResolution ==
    \E elementSize \in ResolutionSizes :
        Start(EmptyDataset, [p \in Pipelines |-> "float"], elementSize)

NextResolution ==
    \/ \E elementSize \in ResolutionSizes : Resize(elementSize)
    \/ \E elementSize \in ResolutionSizes : HostResize(elementSize)
    \/ \E scaleArg \in ScaleArguments : SetFrameScale(scaleArg)
    \/ \E sizeArg \in SizeArguments : SetFrameSize(sizeArg)
    \/ ReadBackFrameScale

SpecResolution == InitResolution /\ [][NextResolution]_vars

\* k is the integer nearest to the fraction x, a half counting upwards
RoundsTo(k, x) == (2 * k - 1) * x[2] <= 2 * x[1] /\ 2 * x[1] < (2 * k + 1) * x[2]

\* x clamped to [lo, hi] as a fraction
Within(x, lo, hi) ==
    IF x[1] < lo * x[2] THEN <<lo, 1>> ELSE IF x[1] > hi * x[2] THEN <<hi, 1>> ELSE x

\* frameScale holds frameSize / size on both axes
ScaleIsSizeOverSurface ==
    \A i \in 1..2 : frameScale[i][1] * size[i] = frameSize[i] * frameScale[i][2]

\* C12: after setScale(s) on a surface S, each axis of the frame size is
\* max(1, round(S * clamp(s, 0, 1))), the scale is frameSize / S and the mode
\* is scale-authoritative; on 800x600 a scale of (1/2, 1/2) gives 400x300
\* and the scale read back is (1/2, 1/2).
C12_SetScaleResult ==
    /\ lastOp.op = "frameScale" =>
          /\ \A i \in 1..2 :
                LET c == Within(lastOp.arg[i], 0, 1)
                IN  \E k \in 0..size[i] :
                        /\ RoundsTo(k, <<size[i] * c[1], c[2]>>)
                        /\ frameSize[i] = IF k < 1 THEN 1 ELSE k
          /\ ScaleIsSizeOverSurface
          /\ ~favorSizeOverScale
    /\ LET after == setFrameScale([World EXCEPT !.size = <<800, 600>>],
                                  <<<<1, 2>>, <<1, 2>>>>)
       IN  /\ after.frameSize = <<400, 300>>
           /\ after.frameScale = <<<<1, 2>>, <<1, 2>>>>
           /\ ~after.favorSizeOverScale

\* C12 witness: a scale of (1/2, 0) on a surface of 3x2 rounds 3/2 up to 2
\* and floors 0 at one pixel; the scale read back is (2/3, 1/2).
C12_Witness ==
    /\ lastOp = Op("frameScale", <<<<1, 2>>, <<0, 1>>>>, "ok")
    /\ size = <<3, 2>>
    /\ frameSize = <<2, 1>>
    /\ frameScale = <<<<2, 3>>, <<1, 2>>>>

\* C13: after setScale(s) with s in [0,1]^2, setting the scale that is read
\* back changes neither the frame size nor the scale.
C13_ScaleRoundTrip ==
    [][(/\ lastOp.op = "frameScale"
        /\ \A i \in 1..2 : Within(lastOp.arg[i], 0, 1) = lastOp.arg[i]
        /\ lastOp'.op = "frameScaleReadBack") =>
            /\ frameSize' = frameSize
            /\ frameScale' = frameScale
            /\ lastOp'.arg = frameScale]_vars

\* C13 witness: the scale (2/3, 1/2) that setScale(1/2, 1/2) left on a
\* surface of 3x2 was set again and is still the scale of the frame 2x1.
C13_Witness ==
    /\ lastOp = Op("frameScaleReadBack", <<<<2, 3>>, <<1, 2>>>>, "ok")
    /\ size = <<3, 2>>
    /\ frameSize = <<2, 1>>
    /\ frameScale = lastOp.arg

\* C14: after setSize(z) on a surface S, each axis of the frame size is
\* round(clamp(z, 1, S)), the scale is frameSize / S, and the mode is
\* size-authoritative exactly when the frame size differs from S; setSize(1, 1)
\* on a surface WxH gives the frame 1x1 and the scale (1/W, 1/H).
C14_SetSizeResult ==
    lastOp.op = "frameSize" =>
        /\ \A i \in 1..2 :
              \E k \in 1..size[i] :
                  /\ RoundsTo(k, Within(lastOp.arg[i], 1, size[i]))
                  /\ frameSize[i] = k
        /\ ScaleIsSizeOverSurface
        /\ favorSizeOverScale <=> (frameSize # size)
        /\ lastOp.arg = <<<<1, 1>>, <<1, 1>>>> =>
              /\ frameSize = <<1, 1>>
              /\ frameScale = <<<<1, size[1]>>, <<1, size[2]>>>>

\* C14 witness: setSize(1, 1) on a surface of 3x2.
C14_Witness ==
    /\ lastOp = Op("frameSize", <<<<1, 1>>, <<1, 1>>>>, "ok")
    /\ size = <<3, 2>>
    /\ frameSize = <<1, 1>>
    /\ frameScale = <<<<1, 3>>, <<1, 2>>>>
    /\ favorSizeOverScale

\* C15: once setSize asked for the full surface size, every later surface
\* resize to S' leaves the frame size S' and the scale (1, 1).
C15_SizeSnapsBack ==
    (requested.kind = "full" /\ lastOp.op \in {"frameSize", "resize", "hostResize"}) =>
        /\ frameSize = size
        /\ frameScale = <<<<1, 1>>, <<1, 1>>>>
        /\ ~favorSizeOverScale

\* C15 witness: setSize(2, 1) on a surface of 2x1, then a resize to 3x2.
C15_Witness ==
    /\ requested = [kind |-> "full", size |-> <<2, 1>>, met |-> FALSE]
    /\ lastOp.op = "resize"
    /\ size = <<3, 2>>
    /\ frameSize = <<3, 2>>

\* C16 (as claimed): after setSize(z) with z smaller than the surface, the
\* frame size is z after every resize of a sequence in which the surface
\* stays >= z on both axes, also after the surface has equalled z.
C16_ExplicitSizeSurvives ==
    requested.kind = "smaller" => frameSize = requested.size

\* C16 (amended): ... in which the surface stays >= z on both axes and never
\* equals z; the mode stays size-authoritative.
C16_ExplicitSizeSurvivesBelowSurface ==
    (requested.kind = "smaller" /\ ~requested.met) =>
        /\ frameSize = requested.size
        /\ favorSizeOverScale

\* C16 witness: setSize(2, 1) on a larger surface, then a resize to 3x1 and
\* a resize to 2x2: the frame is still 2x1.
C16_Witness ==
    /\ requested = [kind |-> "smaller", size |-> <<2, 1>>, met |-> FALSE]
    /\ lastOp.op \in {"resize", "hostResize"}
    /\ size = <<2, 2>>
    /\ frameSize = <<2, 1>>
    /\ frameScale = <<<<1, 1>>, <<1, 2>>>>

\* C17: in every state, whatever finite arguments the setters were given
\* and whatever surface of at least 1x1 the host reported, each axis of the
\* frame size is an integer in [1, surface axis] and each component of the
\* scale lies in [0, 1].
C17_RangeInvariant ==
    \A i \in 1..2 :
        /\ frameSize[i] \in 1..size[i]
        /\ frameScale[i][2] > 0
        /\ 0 <= frameScale[i][1] /\ frameScale[i][1] <= frameScale[i][2]

\* C17 witness: setSize(-1, 4) on a surface of 3x2 gives the frame 1x2.
C17_Witness ==
    /\ lastOp = Op("frameSize", <<<<-1, 1>>, <<4, 1>>>>, "ok")
    /\ size = <<3, 2>>
    /\ frameSize = <<1, 2>>
    /\ frameScale = <<<<1, 3>>, <<1, 1>>>>

\* a setter argument with a negative or an infinite component
Invalid(arg) == \E i \in 1..2 : arg[i][1] < 0 \/ arg[i][2] = 0

\* C18 (as claimed): setScale or setSize given a negative or non-finite
\* component signals InvalidArgument and leaves frame size, scale and mode
\* unchanged.
C18_InvalidRejected ==
    [][(lastOp'.op \in {"frameScale", "frameSize"} /\ Invalid(lastOp'.arg)) =>
          /\ lastOp'.result = "InvalidArgument"
          /\ UNCHANGED <<frameSize, frameScale, favorSizeOverScale>>]_vars

\* C18 (amended): setScale or setSize given a negative or infinite component
\* raises nothing; the component is clamped, so that a negative one gives
\* that axis of the frame one pixel and the scale 1 / surface, and a
\* positive infinite one gives it the surface's extent and the scale 1.
C18_InvalidClamped ==
    (lastOp.op \in {"frameScale", "frameSize"} /\ Invalid(lastOp.arg)) =>
        /\ lastOp.result = "ok"
        /\ \A i \in 1..2 :
              /\ lastOp.arg[i][1] < 0 =>
                    /\ frameSize[i] = 1
                    /\ frameScale[i][1] * size[i] = frameScale[i][2]
              /\ (lastOp.arg[i][1] > 0 /\ lastOp.arg[i][2] = 0) =>
                    /\ frameSize[i] = size[i]
                    /\ frameScale[i] = <<1, 1>>

\* C18 witness: setScale(-1/2, +infinity) on a surface of 3x2 gives the
\* frame 1x2 and the scale (1/3, 1).
C18_Witness ==
    /\ lastOp = Op("frameScale", <<<<-1, 2>>, <<1, 0>>>>, "ok")
    /\ size = <<3, 2>>
    /\ frameSize = <<1, 2>>
    /\ frameScale = <<<<1, 3>>, <<1, 1>>>>
    /\ ~favorSizeOverScale

-----------------------------------------------------------------------------
(* Configuration by data attributes *)

\* texts of the number attributes: absent, "4", "a", "4x", "-3", " 12"
NumberTexts ==
    {<<>>, <<"4">>, <<"a">>, <<"4", "x">>, <<"-", "3">>, <<" ", "1", "2">>}

\* texts of data-clear-color: absent, red, a field that is no number, three
\* fields
ColorTexts ==
    {<<>>, RedComponents, <<<<1, 1>>, NaN, <<0, 1>>, <<1, 1>>>>,
     <<<<1, 1>>, <<0, 1>>, <<0, 1>>>>}

\* texts of data-frame-scale
ScaleTexts ==
    {<<>>, <<<<1, 2>>, <<1, 2>>>>, <<<<3, 2>>, <<1, 3>>>>, <<<<1, 2>>, NaN>>,
     <<<<1, 2>>>>}

\* texts of data-frame-size
SizeTexts ==
    {<<>>, <<<<1, 1>>, <<1, 1>>>>, <<<<2, 1>>, <<1, 1>>>>,
     <<<<MaxWidth + 2, 1>>, <<MaxHeight + 2, 1>>>>, <<<<0, 1>>, <<3, 2>>>>,
     <<NaN, <<1, 1>>>>, <<<<2, 1>>, <<1, 1>>, <<1, 1>>>>}

\* texts of data-accumulation-format
PrecisionTexts == {None, "", "half", "bogus"}

Datasets ==
    {[EmptyDataset EXCEPT !.frameScale = scale, !.frameSize = sz,
                          !.accumulationFormat = precision] :
        scale \in ScaleTexts, sz \in SizeTexts, precision \in PrecisionTexts}
    \cup {[EmptyDataset EXCEPT !.multiFrameNumber = mf, !.debugFrameNumber = df] :
            mf \in NumberTexts, df \in NumberTexts}
    \cup {[EmptyDataset EXCEPT !.clearColor = color] : color \in ColorTexts}

(* A canvas constructed on an element with data attributes, and the        *)
(* resizes of its surface.                                                 *)

InitConfiguration ==
    \E dataset \in Datasets, elementSize \in ResolutionSizes :
        Start(dataset, [p \in Pipelines |-> "float"], elementSize)

NextConfiguration ==
    \/ \E elementSize \in ResolutionSizes : Resize(elementSize)
    \/ \E elementSize \in ResolutionSizes : HostResize(elementSize)

SpecConfiguration == InitConfiguration /\ [][NextConfiguration]_vars

\* a number attribute that is given and is not an unsigned decimal number
MalformedNumber(chars) ==
    chars # <<>> /\ \E i \in 1..Len(chars) : ~IsDigit(chars[i])

\* a vector attribute that is given and is not n numbers
MalformedVector(fields, n) ==
    fields # <<>> /\ (Len(fields) # n \/ \E i \in 1..Len(fields) : fields[i] = NaN)

\* a vector attribute that is given and is n numbers
WellFormedVector(fields, n) == fields # <<>> /\ ~MalformedVector(fields, n)

\* C19 (as claimed): construction raises nothing, and every option whose
\* value is malformed - multi-frame number, debug-frame number, clear color,
\* frame scale, frame size, precision - has its default afterwards; the
\* frame precision after construction is one of float, half, byte, auto.
C19_MalformedFallsBack ==
    lastOp.op = "constructor" =>
        LET dataset == lastOp.arg
        IN  /\ lastOp.result = "ok"
            /\ MalformedNumber(dataset.multiFrameNumber) =>
                    controller.multiFrameNumber = DEFAULT_MULTI_FRAME_NUMBER
            /\ MalformedNumber(dataset.debugFrameNumber) =>
                    controller.debugFrameNumber = 0
            /\ MalformedVector(dataset.clearColor, 4) =>
                    clearColor = DEFAULT_CLEAR_COLOR
            /\ (/\ MalformedVector(dataset.frameScale, 2)
                /\ ~WellFormedVector(dataset.frameSize, 2)) =>
                    frameScale = <<<<1, 1>>, <<1, 1>>>>
            /\ (/\ MalformedVector(dataset.frameSize, 2)
                /\ ~WellFormedVector(dataset.frameScale, 2)) =>
                    frameSize = size /\ ~favorSizeOverScale
            /\ dataset.accumulationFormat \notin ({None} \cup FramePrecisionString) =>
                    framePrecision = DEFAULT_FRAME_PRECISION
            /\ framePrecision \in FramePrecisionString

\* C20: when data-frame-size and data-frame-scale both parse, the size
\* wins: after construction each axis of the frame size is the configured
\* one clamped to [1, surface] (and rounded, where it is no integer), and
\* the scale is frameSize / surface, not the configured scale.
C20_FrameSizePrecedence ==
    (/\ lastOp.op = "constructor"
     /\ WellFormedVector(lastOp.arg.frameSize, 2)
     /\ WellFormedVector(lastOp.arg.frameScale, 2)) =>
        /\ \A i \in 1..2 :
              LET z == Within(lastOp.arg.frameSize[i], 1, size[i])
              IN  /\ \E k \in 1..size[i] : RoundsTo(k, z) /\ frameSize[i] = k
                  /\ z[2] = 1 => frameSize[i] = z[1]
        /\ ScaleIsSizeOverSurface
        /\ favorSizeOverScale <=> (frameSize # size)

\* C20 witness: data-frame-size "2,1" and data-frame-scale "0.5,0.5" on a
\* surface of 3x2: the frame is 2x1, which a scale of 1/2 would not give,
\* and the scale is (2/3, 1/2).
C20_Witness ==
    /\ lastOp.op = "constructor"
    /\ lastOp.arg.frameSize = <<<<2, 1>>, <<1, 1>>>>
    /\ lastOp.arg.frameScale = <<<<1, 2>>, <<1, 2>>>>
    /\ size = <<3, 2>>
    /\ frameSize = <<2, 1>>
    /\ frameScale = <<<<2, 3>>, <<1, 2>>>>
    /\ favorSizeOverScale

-----------------------------------------------------------------------------
(* Streams *)

(* The four streams of a canvas and one pipeline: both resolution setters, *)
(* the precision setter, resizes, bind, unbind and dispose.                *)

\* the pipeline supports half floats at best, so that float is downgraded
InitStreams ==
    \E elementSize \in Sizes :
        Start(EmptyDataset, [p \in Pipelines |-> "half"], elementSize)

NextStreams ==
    \/ \E r \in {ThePipeline, None}, ok \in BOOLEAN : Bind(r, ok)
    \/ Dispose
    \/ \E elementSize \in Sizes : Resize(elementSize)
    \/ \E scaleArg \in ScaleInputs : SetFrameScale(scaleArg)
    \/ \E sizeArg \in SizeInputs : SetFrameSize(sizeArg)
    \/ \E precision \in FramePrecisionString : SetFramePrecision(precision)

SpecStreams == InitStreams /\ [][NextStreams]_vars

\* C21: in every state the value each of the four streams emitted last -
\* surface size, frame size, frame scale, frame precision - is the current
\* value of that property, which is what a new subscriber receives.
C21_StreamsReplayCurrent ==
    /\ subjects.size = size
    /\ subjects.frameSize = frameSize
    /\ subjects.frameScale = frameScale
    /\ subjects.framePrecision = framePrecision

\* C21 witness: with a pipeline attached that accumulates in half floats at
\* best, float was asked for and the stream holds the half that was accepted.
C21_Witness ==
    /\ lastOp = Op("framePrecision", "float", "ok")
    /\ Attached
    /\ framePrecision = "half"
    /\ subjects.framePrecision = "half"
    /\ subjects.frameSize = frameSize /\ frameSize # size

-----------------------------------------------------------------------------
(* Label: the state machine *)

\* everything but the label, the texts and lastOp
canvasVars ==
    <<size, frameScale, frameSize, favorSizeOverScale, clearColor, framePrecision,
      renderer, subjects, disposed, controller, pipeline, capability, log, requested>>

LabelCommit(l, op) ==
    /\ label' = l
    /\ lastOp' = op
    /\ UNCHANGED <<canvasVars, texts>>

\* how a color setter ended
ColorResult(current) == IF current = NoColor THEN "TypeError" ELSE "ok"

SetText(text) == LabelCommit(setText(label, text), Op("label.text", text, "ok"))

SetWordWrap(wrap) ==
    LabelCommit(setWordWrap(label, wrap), Op("label.wordWrap", wrap, "ok"))

SetAlignment(alignment) ==
    LabelCommit(setAlignment(label, alignment), Op("label.alignment", alignment, "ok"))

SetLineAnchor(anchor) ==
    LabelCommit(setLineAnchor(label, anchor), Op("label.lineAnchor", anchor, "ok"))

SetFontFace(fontFace) ==
    LabelCommit(setFontFace(label, fontFace), Op("label.fontFace", fontFace, "ok"))

SetColor(color) ==
    LabelCommit(setColor(label, color),
                Op("label.color", color, ColorResult(label.color)))

SetBackgroundColor(color) ==
    LabelCommit(setBackgroundColor(label, color),
                Op("label.backgroundColor", color, ColorResult(label.backgroundColor)))

\* label.reset()
ResetLabel == LabelCommit(reset(label), Op("label.reset", None, "ok"))

\* label.altered is read
ReadAltered ==
    LabelCommit(label, Op("label.altered", None,
                          IF altered(label, texts) THEN "true" ELSE "false"))

\* the owner of a Text object changes it, or resets its flag
AlterText(t) ==
    /\ texts' = [texts EXCEPT ![t].altered = TRUE]
    /\ lastOp' = Op("text.alter", t, "ok")
    /\ UNCHANGED <<canvasVars, label>>

ResetText(t) ==
    /\ texts[t].altered
    /\ texts' = [texts EXCEPT ![t].altered = FALSE]
    /\ lastOp' = Op("text.reset", t, "ok")
    /\ UNCHANGED <<canvasVars, label>>

\* values the setters are given; the anchors are two of the six
Alignments == {"left", "center", "right"}
LineAnchors == {"top", "baseline"}

(* The colors of a label.  Label declares no constructor: a label is as    *)
(* new Label() leaves it, its color fields undefined, or has them assigned *)
(* by the class that derives from it.                                      *)

InitLabelColors ==
    \E color \in ColorObjects \cup {NoColor}, background \in ColorObjects \cup {NoColor} :
        StartWith(EmptyDataset, [p \in Pipelines |-> "float"], <<1, 1>>,
                  [NewLabel EXCEPT !.color = color, !.backgroundColor = background])

NextLabelColors ==
    \/ \E color \in ColorObjects \cup {NoColor} : SetColor(color)
    \/ \E color \in ColorObjects \cup {NoColor} : SetBackgroundColor(color)
    \/ ResetLabel

SpecLabelColors == InitLabelColors /\ [][NextLabelColors]_vars

\* C22: assigning to color or backgroundColor a color whose components equal
\* those of the current one, be it another object, leaves every flag of the
\* change lookup as it was and leaves the stored object the same.
C22_NoSpuriousDirty ==
    [][/\ (/\ lastOp'.op = "label.color"
           /\ label.color # NoColor
           /\ equals(lastOp'.arg, label.color)) => label' = label
       /\ (/\ lastOp'.op = "label.backgroundColor"
           /\ label.backgroundColor # NoColor
           /\ equals(lastOp'.arg, label.backgroundColor)) => label' = label]_vars

\* C22 witness: a reset label holding the first red object was given the
\* second red object: nothing is altered and the first is still stored.
C22_Witness ==
    /\ lastOp = Op("label.color", [id |-> 2, rgba |-> "red"], "ok")
    /\ label.color = [id |-> 1, rgba |-> "red"]
    /\ \A c \in Categories : ~label.altered[c]

(* A label with all its setters, reset and the altered getter, and the     *)
(* Text object it may refer to.  One object per color.                     *)

LabelTexts == {None} \cup Strings \cup TextObjects
LabelFontFaces == {None} \cup FontFaces
LabelColors == {c \in ColorObjects : c.id = 1} \cup {NoColor}

InitLabel ==
    \E text \in LabelTexts, fontFace \in LabelFontFaces, color \in LabelColors :
        StartWith(EmptyDataset, [p \in Pipelines |-> "float"], <<1, 1>>,
                  [NewLabel EXCEPT !.text = text, !.fontFace = fontFace,
                                   !.color = color, !.backgroundColor = color])

NextLabel ==
    \/ \E text \in LabelTexts : SetText(text)
    \/ \E wrap \in BOOLEAN : SetWordWrap(wrap)
    \/ \E alignment \in Alignments : SetAlignment(alignment)
    \/ \E anchor \in LineAnchors : SetLineAnchor(anchor)
    \/ \E fontFace \in LabelFontFaces : SetFontFace(fontFace)
    \/ \E color \in LabelColors : SetColor(color)
    \/ \E color \in LabelColors : SetBackgroundColor(color)
    \/ ResetLabel
    \/ ReadAltered
    \/ \E t \in TextObjects : AlterText(t)
    \/ \E t \in TextObjects : ResetText(t)

SpecLabel == InitLabel /\ [][NextLabel]_vars

\* the property a setter writes, as the label holds it
Current(l, setter) ==
    CASE setter = "label.text" -> l.text
      [] setter = "label.wordWrap" -> l.wordWrap
      [] setter = "label.alignment" -> l.alignment
      [] setter = "label.lineAnchor" -> l.lineAnchor
      [] setter = "label.fontFace" -> l.fontFace
      [] setter = "label.color" -> l.color
      [] setter = "label.backgroundColor" -> l.backgroundColor

Setters ==
    {"label.text", "label.wordWrap", "label.alignment", "label.lineAnchor",
     "label.fontFace", "label.color", "label.backgroundColor"}

\* C23 (as claimed): whichever of the seven setters writes the current value
\* of its property back to a label that is not altered, no category is
\* marked and altered is still false.
C23_WriteBackLeavesClean ==
    [][(/\ lastOp'.op \in Setters
        /\ lastOp'.arg = Current(label, lastOp'.op)
        /\ ~altered(label, texts)) =>
            /\ label'.altered = label.altered
            /\ ~altered(label', texts')]_vars

\* C24: label.altered is the label's own any flag or, when the text is a
\* Text object, that object's altered flag; reading altered and calling
\* reset() leave the Text object's flag as it was, so that after reset()
\* label.altered is the Text object's flag, and false for a plain string.
C24_AlteredIsOwnOrText ==
    [][/\ lastOp'.op = "label.altered" =>
            /\ (lastOp'.result = "true") <=>
                  (label.altered["any"] \/
                      (label.text \in TextObjects /\ texts[label.text].altered))
            /\ UNCHANGED <<label, texts>>
       /\ lastOp'.op = "label.reset" =>
            /\ texts' = texts
            /\ altered(label', texts') <=>
                  (label'.text \in TextObjects /\ texts[label'.text].altered)]_vars

\* C24 witness: nothing of the label's own is marked, as after reset(), but
\* the Text object it refers to is altered, and so label.altered reads true.
C24_Witness ==
    /\ lastOp = Op("label.altered", None, "true")
    /\ label.text \in TextObjects
    /\ texts[label.text].altered
    /\ \A c \in Categories : ~label.altered[c]

\* C25: on every surface resize to S', a size-authoritative canvas takes the
\* previous frame size clamped per axis to [1, S'], a scale-authoritative
\* one takes max(1, round(S' * previous scale)) per axis, and the scale is
\* recomputed as frameSize / S'; 800x600 at scale (1/2, 1/2) resized to
\* 801x600 gives a width of round(400.5) = 401 and a scale of 401/801.
C25_ResizeDispatch ==
    [][/\ lastOp'.op \in {"resize", "hostResize"} =>
            /\ favorSizeOverScale =>
                  \A i \in 1..2 :
                      frameSize'[i] = IF frameSize[i] < 1 THEN 1
                                      ELSE IF frameSize[i] > size'[i] THEN size'[i]
                                      ELSE frameSize[i]
            /\ ~favorSizeOverScale =>
                  \A i \in 1..2 :
                      \E k \in 0..size'[i] :
                          /\ RoundsTo(k, <<size'[i] * frameScale[i][1], frameScale[i][2]>>)
                          /\ frameSize'[i] = IF k < 1 THEN 1 ELSE k
            /\ \A i \in 1..2 :
                  frameScale'[i][1] * size'[i] = frameSize'[i] * frameScale'[i][2]
       /\ LET before == [World EXCEPT !.size = <<800, 600>>,
                                      !.frameSize = <<400, 300>>,
                                      !.frameScale = <<<<1, 2>>, <<1, 2>>>>,
                                      !.favorSizeOverScale = FALSE]
              after  == onResize(before, <<801, 600>>)
          IN  /\ after.size = <<801, 600>>
              /\ after.frameSize = <<401, 300>>
              /\ after.frameScale = <<<<401, 801>>, <<1, 2>>>>]_vars

\* C25 witness: a scale-authoritative canvas resized to a width of 3 holds
\* round(3 * 1/2) = 2 pixels of it and a scale of 2/3, and a full height.
C25_Witness ==
    /\ lastOp.op = "resize"
    /\ ~favorSizeOverScale
    /\ size = <<3, 2>>
    /\ frameSize = <<2, 2>>
    /\ frameScale = <<<<2, 3>>, <<1, 1>>>>

\* surfaces the host may report for an element that is hidden or not laid
\* out: a width or a height of 0
SurfaceSizes == (0..MaxWidth) \X (0..MaxHeight)

(* The resolution of a canvas whose element may have no extent: surface    *)
(* resizes and the two setters.                                            *)

InitSurface ==
    \E elementSize \in SurfaceSizes :
        Start(EmptyDataset, [p \in Pipelines |-> "float"], elementSize)

NextSurface ==
    \/ \E elementSize \in SurfaceSizes : Resize(elementSize)
    \/ \E elementSize \in SurfaceSizes : HostResize(elementSize)
    \/ \E scaleArg \in ScaleInputs : SetFrameScale(scaleArg)
    \/ \E sizeArg \in SizeInputs : SetFrameSize(sizeArg)

SpecSurface == InitSurface /\ [][NextSurface]_vars

\* C26 (as claimed): when the host reports a surface with a 0 component, the
\* stored surface is floored at (1, 1), so that in every state the surface
\* is at least 1x1, the frame size lies in [1, surface] on both axes and
\* the scale is a finite number in [0, 1].
C26_ZeroSurfaceFloored ==
    \A i \in 1..2 :
        /\ size[i] >= 1
        /\ 1 <= frameSize[i] /\ frameSize[i] <= size[i]
        /\ frameScale[i][2] # 0
        /\ 0 <= frameScale[i][1] /\ frameScale[i][1] <= frameScale[i][2]

\* C27 (as claimed): in every state between canvas operations the renderer
\* of the canvas, when there is one, is initialized, also after a bind
\* whose initialize returned false.
C27_BoundIsInitialized ==
    renderer # None => pipeline[renderer].initialized

\* C28: from construction on, whenever the canvas has no renderer the
\* controller is blocked, and a resize of a canvas without renderer calls
\* neither block nor unblock.
C28_BlockedWithoutRenderer ==
    /\ renderer = None => controller.blocked
    /\ (lastOp.op \in {"resize", "hostResize"} /\ renderer = None) =>
          \A i \in 1..Len(log) : log[i][1] \notin {"block", "unblock"}

\* C28 witness: a pipeline was bound and unbound again, and the canvas was
\* then resized: the controller is still blocked.
C28_Witness ==
    /\ lastOp.op = "resize"
    /\ renderer = None
    /\ controller.controllable = None
    /\ pipeline[ThePipeline].callback
    /\ ~disposed
    /\ controller.blocked

\* C29 (as claimed): when an initialized pipeline that is not the renderer
\* of the canvas (it was unbound or replaced) calls its invalidation
\* callback, the controller schedules no render pass.
C29_StaleCallbackIgnored ==
    (lastOp.op = "invalidate" /\ lastOp.arg # renderer
        /\ pipeline[lastOp.arg].initialized) =>
        Calls(<<"update", "scheduled">>) = 0

\* C30 (as claimed): after every canvas operation, a bind that initialize
\* aborted included, the controllable of the controller and the renderer of
\* the canvas are both undefined or the same pipeline.
C30_CanvasAndControllerAgree ==
    controller.controllable = renderer

=============================================================================
